---------------------------- MODULE Spec2Model ----------------------------
(***************************************************************************)
(* A model of two pieces of snarkVM:                                       *)
(*   - the string codec of Identifier                                      *)
(*     (console/program/src/data/identifier/string.rs), and                *)
(*   - TransactionAuthorization (dpc/src/transaction/authorization.rs).    *)
(* Strings are sequences of Unicode scalar values, byte strings are        *)
(* sequences of 0..255, bit strings are sequences of BOOLEAN (little       *)
(* endian: the least significant bit first).                               *)
(***************************************************************************)
EXTENDS Integers, Sequences, FiniteSets, TLC

VARIABLES
    name,       \* the &str handed to Identifier::from_str (empty before)
    ident,      \* an Identifier (self.0, self.1), or the Err of from_str
    shown,      \* what Display::fmt produced for ident ("none" before)
    ipc,        \* position of the identifier scenario
    apc,        \* position of the authorization scenario
    debug,      \* build mode: TRUE when debug assertions are compiled in
    state,      \* the StateTransition handed to TransactionAuthorization::from
    sigs,       \* the signatures handed to TransactionAuthorization::from
    auth,       \* the TransactionAuthorization built ("none", or "panic")
    wire,       \* the bytes written by write_le ("none" before)
    back,       \* what read_le produced from wire ("none" before)
    derived,    \* the result of the last derivation ("none" before)
    prev        \* the program commitment derived before the last reordering

idVars == <<name, ident, shown, ipc>>
authVars == <<apc, debug, state, sigs, auth, wire, back, derived, prev>>
vars == <<name, ident, shown, ipc, apc, debug, state, sigs, auth, wire, back, derived, prev>>

(***************************************************************************)
(* Bounds of the model.                                                    *)
(***************************************************************************)
\* Longest candidate name, in characters.
MaxNameLen == 4
\* Data capacity of the model's base field, in bits (252 for BLS12-377 Fr).
FieldDataBits == 28
\* Number of distinct program identifiers the records carry.
MaxProgramId == 2

(***************************************************************************)
(* Generic helpers.                                                        *)
(***************************************************************************)
RECURSIVE Pow2(_)
Pow2(n) == IF n = 0 THEN 1 ELSE 2 * Pow2(n - 1)

Min(a, b) == IF a < b THEN a ELSE b

SeqsUpTo(S, n) == UNION {[1..k -> S] : k \in 0..n}

\* iter.take(n)
Take(s, n) == SubSeq(s, 1, Min(n, Len(s)))

RECURSIVE Flatten(_)
Flatten(ss) == IF ss = <<>> THEN <<>> ELSE Head(ss) \o Flatten(Tail(ss))

Ok(v) == [ok |-> TRUE, val |-> v]
Err(e) == [ok |-> FALSE, err |-> e]

(***************************************************************************)
(* Characters.  The candidate names are drawn from a sample of the         *)
(* Unicode scalar values: a digit, a lower and an upper case letter, the   *)
(* underscore, two punctuation marks and a two-byte letter.                *)
(***************************************************************************)
\* '_'
Underscore == 95

\* '1', '-', 'B', '_', 'a' and U+00E9 (two bytes in UTF-8: C3 A9)
Chars == {49, 45, 66, Underscore, 97, 233}

\* char::is_numeric on the sample
IsNumeric(c) == c \in 48..57

\* char::is_alphabetic on the sample
IsAlphabetic(c) == c \in (65..90) \cup (97..122) \cup {233}

\* char::is_alphanumeric
IsAlphanumeric(c) == IsAlphabetic(c) \/ IsNumeric(c)

\* The UTF-8 encoding of one scalar value.
Utf8(c) ==
    IF c < 128 THEN <<c>>
    ELSE IF c < 2048 THEN <<192 + (c \div 64), 128 + (c % 64)>>
    ELSE IF c < 65536
    THEN <<224 + (c \div 4096), 128 + ((c \div 64) % 64), 128 + (c % 64)>>
    ELSE <<240 + (c \div 262144), 128 + ((c \div 4096) % 64),
           128 + ((c \div 64) % 64), 128 + (c % 64)>>

\* str::as_bytes
AsBytes(s) == Flatten([i \in 1..Len(s) |-> Utf8(s[i])])

\* str::len: the length in bytes
StrLen(s) == Len(AsBytes(s))

(***************************************************************************)
(* Bits and the base field.                                                *)
(***************************************************************************)
\* N::Field::size_in_data_bits()
SizeInDataBits == FieldDataBits

\* N::Field::size_in_bits(): the capacity is one bit short of the size
SizeInBits == SizeInDataBits + 1

\* The modulus of the model's base field, of SizeInBits bits.
Modulus == Pow2(SizeInDataBits) + 3

\* u8::to_bits_le
U8ToBitsLe(b) == [i \in 1..8 |-> (b \div Pow2(i - 1)) % 2 = 1]

\* [u8]::to_bits_le
BytesToBitsLe(bytes) == Flatten([i \in 1..Len(bytes) |-> U8ToBitsLe(bytes[i])])

RECURSIVE BitsValue(_)
BitsValue(bits) ==
    IF bits = <<>> THEN 0
    ELSE (IF Head(bits) THEN 1 ELSE 0) + 2 * BitsValue(Tail(bits))

\* N::field_from_bits_le: fails when the bits do not denote a field element
FieldFromBitsLe(bits) ==
    IF \E i \in 1..Len(bits) : i > SizeInBits /\ bits[i]
    THEN Err("Invalid field element from bits")
    ELSE LET v == BitsValue(Take(bits, SizeInBits))
         IN IF v >= Modulus THEN Err("Invalid field element from bits") ELSE Ok(v)

\* Field::to_bits_le: always size_in_bits() bits
FieldToBitsLe(v) == [i \in 1..SizeInBits |-> (v \div Pow2(i - 1)) % 2 = 1]

\* slice::chunks(8): the last chunk may be shorter
Chunks(bits, n) ==
    [k \in 1..((Len(bits) + n - 1) \div n) |->
        SubSeq(bits, (k - 1) * n + 1, Min(k * n, Len(bits)))]

\* u8::from_bits_le
U8FromBitsLe(bits) == BitsValue(bits)

(***************************************************************************)
(* UTF-8 decoding (String::from_utf8): the scalar values of a well formed  *)
(* byte string, or an error.                                               *)
(***************************************************************************)
IsCont(b) == b \in 128..191

\* The number of bytes of the sequence a lead byte opens, 0 for no lead byte.
Utf8Width(b) ==
    IF b < 128 THEN 1
    ELSE IF b \in 194..223 THEN 2
    ELSE IF b \in 224..239 THEN 3
    ELSE IF b \in 240..244 THEN 4
    ELSE 0

\* The range of the second byte, which excludes overlong forms and surrogates.
SecondOk(b1, b2) ==
    IF b1 = 224 THEN b2 \in 160..191
    ELSE IF b1 = 237 THEN b2 \in 128..159
    ELSE IF b1 = 240 THEN b2 \in 144..191
    ELSE IF b1 = 244 THEN b2 \in 128..143
    ELSE IsCont(b2)

RECURSIVE Utf8Payload(_)
Utf8Payload(conts) ==
    IF conts = <<>> THEN 0
    ELSE (conts[Len(conts)] - 128) + 64 * Utf8Payload(SubSeq(conts, 1, Len(conts) - 1))

RECURSIVE FromUtf8(_)
FromUtf8(bytes) ==
    IF bytes = <<>> THEN Ok(<<>>)
    ELSE LET b1 == Head(bytes)
             w == Utf8Width(b1)
         IN IF w = 0 \/ Len(bytes) < w THEN Err("invalid utf-8")
            ELSE IF w > 1 /\ ~(SecondOk(b1, bytes[2]) /\ \A i \in 3..w : IsCont(bytes[i]))
            THEN Err("invalid utf-8")
            ELSE LET lead == IF w = 1 THEN b1
                             ELSE IF w = 2 THEN b1 - 192
                             ELSE IF w = 3 THEN b1 - 224
                             ELSE b1 - 240
                     c == lead * Pow2(6 * (w - 1)) + Utf8Payload(SubSeq(bytes, 2, w))
                     rest == FromUtf8(SubSeq(bytes, w + 1, Len(bytes)))
                 IN IF rest.ok THEN Ok(<<c>> \o rest.val) ELSE rest

\* A Display that forgets to cut the padding off.
WholeString(s) == s

\* string.split('\0').next(): the text before the first NUL
RECURSIVE BeforeNul(_)
BeforeNul(s) ==
    IF s = <<>> \/ Head(s) = 0 THEN <<>> ELSE <<Head(s)>> \o BeforeNul(Tail(s))

(***************************************************************************)
(* Identifier::from_str and Display for Identifier.                        *)
(***************************************************************************)
\* An Identifier is the pair (self.0, self.1).
Identifier(value, length) == [value |-> value, length |-> length]

\* N::Field::size_in_data_bits() / 8, rounding down
MaxBytes == SizeInDataBits \div 8

\* A length counted in characters, not in bytes.
CharCount(identifier) == Len(identifier)

\* identifier.len(): the length the capacity check and the cast read
IdentifierLen(identifier) == StrLen(identifier)

\* A from_str without the check for names made of underscores only.
FromStrUnderscoresAllowed(identifier) ==
    IF identifier = <<>> THEN Err("Identifier cannot be an empty string")
    ELSE IF IsNumeric(Head(identifier)) THEN Err("Identifier cannot start with a number")
    ELSE IF ~(\A i \in 1..Len(identifier) :
                IsAlphanumeric(identifier[i]) \/ identifier[i] = Underscore)
    THEN Err("Identifier must be alphanumeric and underscores")
    ELSE IF IdentifierLen(identifier) > MaxBytes
    THEN Err("Identifier is too large")
    ELSE LET field == FieldFromBitsLe(BytesToBitsLe(AsBytes(identifier)))
         IN IF field.ok
            THEN Ok(Identifier(field.val, IdentifierLen(identifier) % 256))
            ELSE field

FromStr(identifier) ==
    IF identifier = <<>> THEN Err("Identifier cannot be an empty string")
    ELSE IF IsNumeric(Head(identifier)) THEN Err("Identifier cannot start with a number")
    ELSE IF ~(\A i \in 1..Len(identifier) :
                IsAlphanumeric(identifier[i]) \/ identifier[i] = Underscore)
    THEN Err("Identifier must be alphanumeric and underscores")
    ELSE IF \A i \in 1..Len(identifier) : identifier[i] = Underscore
    THEN Err("Identifier cannot consist solely of underscores")
    ELSE IF IdentifierLen(identifier) > MaxBytes
    THEN Err("Identifier is too large")
    ELSE LET field == FieldFromBitsLe(BytesToBitsLe(AsBytes(identifier)))
         IN IF field.ok
            THEN Ok(Identifier(field.val, IdentifierLen(identifier) % 256))
            ELSE field

\* A comparison that accepts a text shorter than the stored length.
LengthAtMost(string, length) == StrLen(string) <= length

\* The comparison of the recovered text's length with self.1.
LengthMatches(string, length) == StrLen(string) = length

Display(self) ==
    LET bits_le == FieldToBitsLe(self.value)
        chunks == Chunks(bits_le, 8)
        bytes == [k \in 1..Len(chunks) |-> U8FromBitsLe(chunks[k])]
        string == FromUtf8(bytes)
    IN IF ~string.ok THEN Err("fmt::Error")
       ELSE LET first == BeforeNul(string.val)
            IN IF LengthMatches(first, self.length) THEN Ok(first) ELSE Err("fmt::Error")

(***************************************************************************)
(* The identifier scenario: a candidate name is parsed, and the resulting  *)
(* identifier is printed.                                                  *)
(***************************************************************************)
Names == SeqsUpTo(Chars, MaxNameLen)

\* The authorization half of the state, untouched by the identifier scenario.
AuthIdle ==
    /\ apc = "idle"
    /\ debug = FALSE
    /\ state = "none"
    /\ sigs = "none"
    /\ auth = "none"
    /\ wire = "none"
    /\ back = "none"
    /\ derived = "none"
    /\ prev = "none"

InitIdentifier ==
    /\ name = <<>>
    /\ ident = "none"
    /\ shown = "none"
    /\ ipc = "start"
    /\ AuthIdle

\* Identifier::from_str(name)
CallFromStr ==
    /\ ipc = "start"
    /\ \E n \in Names :
        /\ name' = n
        /\ ident' = FromStr(n)
    /\ ipc' = "parsed"
    /\ UNCHANGED <<shown, authVars>>

\* identifier.to_string(), on an identifier at hand
CallDisplay ==
    /\ ipc = "parsed"
    /\ ident.ok
    /\ shown' = Display(ident.val)
    /\ ipc' = "shown"
    /\ UNCHANGED <<name, ident, authVars>>

NextIdentifier == CallFromStr \/ CallDisplay

SpecIdentifier == InitIdentifier /\ [][NextIdentifier]_vars

(***************************************************************************)
(* Printing an arbitrary identifier: any field element whose bytes come    *)
(* from a sample (NUL, 'a', '_', the two bytes of U+00E9 and the byte FF,  *)
(* which no UTF-8 text holds), with any stored length from a sample.       *)
(***************************************************************************)
ByteSample == {0, 97, Underscore, 195, 169, 255}

AnyValues ==
    {BitsValue(BytesToBitsLe(bs)) + t * Pow2(8 * MaxBytes) :
        bs \in [1..MaxBytes -> ByteSample], t \in {0, 1}}

AnyLengths == (0..(MaxBytes + 2)) \cup {255}

InitDisplay ==
    /\ name = <<>>
    /\ ident \in {Ok(Identifier(v, l)) : v \in AnyValues, l \in AnyLengths}
    /\ shown = "none"
    /\ ipc = "parsed"
    /\ AuthIdle

NextDisplay == CallDisplay

SpecDisplay == InitDisplay /\ [][NextDisplay]_vars

\* The bytes of a field element, as Display regroups them.
FieldBytes(v) ==
    LET chunks == Chunks(FieldToBitsLe(v), 8)
    IN [k \in 1..Len(chunks) |-> U8FromBitsLe(chunks[k])]

(***************************************************************************)
(* Properties of the identifier codec.                                     *)
(***************************************************************************)
\* C1: every name from_str accepts is printed back by Display, exactly.
RoundTrip ==
    ipc = "shown" => (shown.ok /\ shown.val = name)

\* "a_B": an underscore, both cases, and exactly MaxBytes bytes.
RoundTripWitness ==
    /\ ipc = "shown"
    /\ name = <<97, Underscore, 66>>
    /\ StrLen(name) = MaxBytes
    /\ shown = Ok(name)

\* C2: from_str fails on the empty name, on a name that starts with a
\* numeric character, on a name holding a character that is neither
\* alphanumeric nor the underscore, and on a name of underscores only.
RejectsMalformed ==
    ipc # "start" =>
        ((\/ name = <<>>
          \/ (name # <<>> /\ IsNumeric(name[1]))
          \/ \E i \in 1..Len(name) : ~IsAlphanumeric(name[i]) /\ name[i] # Underscore
          \/ \A i \in 1..Len(name) : name[i] = Underscore)
         => ~ident.ok)

\* "__" is refused.
RejectsMalformedWitness ==
    /\ ipc = "parsed"
    /\ name = <<Underscore, Underscore>>
    /\ ~ident.ok

\* C3: from_str fails on every name longer than MaxBytes bytes, and the
\* length stored in an identifier it returns is the byte length of the
\* name, at most MaxBytes and at most 255.
CapacityBound ==
    ipc # "start" =>
        /\ StrLen(name) > MaxBytes => ~ident.ok
        /\ ident.ok =>
            /\ ident.val.length = StrLen(name)
            /\ ident.val.length <= MaxBytes
            /\ ident.val.length <= 255

\* A well formed name of MaxBytes characters and MaxBytes + 1 bytes fails
\* the capacity check.
CapacityBoundWitness ==
    /\ ipc = "parsed"
    /\ name = <<97, 233, 97>>
    /\ Len(name) = MaxBytes
    /\ StrLen(name) = MaxBytes + 1
    /\ ident = Err("Identifier is too large")

\* The bytes before the first zero byte.
RECURSIVE BeforeZeroByte(_)
BeforeZeroByte(bytes) ==
    IF bytes = <<>> \/ Head(bytes) = 0 THEN <<>>
    ELSE <<Head(bytes)>> \o BeforeZeroByte(Tail(bytes))

\* C4: Display fails whenever the bytes of the field element, cut at the
\* first zero byte, are not self.1 many, and a text it returns has exactly
\* self.1 bytes.
LengthChecked ==
    ipc = "shown" =>
        /\ Len(BeforeZeroByte(FieldBytes(ident.val.value))) # ident.val.length
                => ~shown.ok
        /\ shown.ok => StrLen(shown.val) = ident.val.length

\* "aaa" followed by the byte 01, no zero byte at all, stored with length 3.
LengthCheckedWitness ==
    /\ ipc = "shown"
    /\ FieldBytes(ident.val.value) = <<97, 97, 97, 1>>
    /\ ident.val.length = 3
    /\ ~shown.ok

(***************************************************************************)
(* TransactionAuthorization.  The kernel, the records, the signatures and  *)
(* the compute keys are opaque values with a fixed-width byte form: one    *)
(* byte for a kernel, a signature and a compute key, two bytes (little     *)
(* endian) for a record, which is its program identifier.                  *)
(***************************************************************************)
\* C::NUM_INPUT_RECORDS
NUM_INPUT_RECORDS == 2

\* C::NUM_OUTPUT_RECORDS
NUM_OUTPUT_RECORDS == 2

\* C::NUM_TOTAL_RECORDS
NUM_TOTAL_RECORDS == NUM_INPUT_RECORDS + NUM_OUTPUT_RECORDS

ProgramIds == 1..MaxProgramId

Records == [program_id : ProgramIds]

\* Kernel 0 stands for the kernels is_valid() refuses.
Kernels == {0, 1, 2}

Signatures == {1, 2}

ComputeKeys == {1, 2}

None == [some |-> FALSE]
Some(k) == [some |-> TRUE, key |-> k]

OptionalKeys == {None} \cup {Some(k) : k \in ComputeKeys}

\* TransactionKernel::is_valid
IsValid(kernel) == kernel # 0

\* The debug assertions of TransactionAuthorization::from.
DebugAssertions(st, signatures) ==
    /\ IsValid(st.kernel)
    /\ NUM_INPUT_RECORDS = Len(st.input_records)
    /\ NUM_OUTPUT_RECORDS = Len(st.output_records)
    /\ NUM_INPUT_RECORDS = Len(signatures)

\* TransactionAuthorization::from: the assertions exist in a debug build only
From(dbg, st, signatures) ==
    IF dbg /\ ~DebugAssertions(st, signatures)
    THEN Err("panic")
    ELSE Ok([kernel |-> st.kernel,
             input_records |-> st.input_records,
             output_records |-> st.output_records,
             signatures |-> signatures,
             noop_compute_keys |-> st.noop_compute_keys])

(***************************************************************************)
(* The byte forms of the parts.                                            *)
(***************************************************************************)
\* TransactionKernel::write_le
KernelBytes(k) == <<k>>

\* program_id().to_bytes_le()
ProgramIdBytes(p) == <<p % 256, p \div 256>>

\* Record::write_le
RecordBytes(r) == ProgramIdBytes(r.program_id)

\* AccountSignature::write_le
SignatureBytes(g) == <<g>>

\* ComputeKey::write_le
ComputeKeyBytes(k) == <<k>>

\* bool::write_le
BoolBytes(b) == IF b THEN <<1>> ELSE <<0>>

\* A field written to the stream: what it is, and its bytes.
Field(kind, bytes) == [kind |-> kind, bytes |-> bytes]

\* An optional compute key written without its discriminant.
WriteOptionNoTag(key) ==
    IF key.some THEN <<Field("compute_key", ComputeKeyBytes(key.key))>> ELSE <<>>

\* One noop compute key: the discriminant, and the key when there is one.
WriteOption(key) ==
    IF key.some
    THEN <<Field("bool", BoolBytes(TRUE)), Field("compute_key", ComputeKeyBytes(key.key))>>
    ELSE <<Field("bool", BoolBytes(FALSE))>>

\* The fields write_le writes, in order.  Vec::write_le writes every element
\* of the vector, without a length.
WriteFields(self) ==
    <<Field("kernel", KernelBytes(self.kernel))>>
    \o [i \in 1..Len(self.input_records) |->
            Field("input_record", RecordBytes(self.input_records[i]))]
    \o [i \in 1..Len(self.output_records) |->
            Field("output_record", RecordBytes(self.output_records[i]))]
    \o [i \in 1..Len(self.signatures) |->
            Field("signature", SignatureBytes(self.signatures[i]))]
    \o Flatten([i \in 1..Len(Take(self.noop_compute_keys, NUM_INPUT_RECORDS)) |->
            WriteOption(self.noop_compute_keys[i])])

\* TransactionAuthorization::write_le, into an empty buffer
WriteLe(self) ==
    LET fields == WriteFields(self)
    IN Flatten([i \in 1..Len(fields) |-> fields[i].bytes])

(***************************************************************************)
(* Reading.  A reader returns the value read and the bytes left, or an     *)
(* error when the bytes run out or are malformed.                          *)
(***************************************************************************)
Read(v, rest) == [ok |-> TRUE, val |-> v, rest |-> rest]

IoError == [ok |-> FALSE, err |-> "io"]

\* TransactionKernel::read_le
ReadKernel(bytes) ==
    IF Len(bytes) < 1 THEN IoError ELSE Read(bytes[1], Tail(bytes))

\* Record::read_le
ReadRecord(bytes) ==
    IF Len(bytes) < 2 THEN IoError
    ELSE Read([program_id |-> bytes[1] + 256 * bytes[2]], SubSeq(bytes, 3, Len(bytes)))

\* AccountSignature::read_le
ReadSignature(bytes) ==
    IF Len(bytes) < 1 THEN IoError ELSE Read(bytes[1], Tail(bytes))

\* ComputeKey::read_le
ReadComputeKey(bytes) ==
    IF Len(bytes) < 1 THEN IoError ELSE Read(bytes[1], Tail(bytes))

\* bool::read_le
ReadBool(bytes) ==
    IF Len(bytes) < 1 \/ bytes[1] \notin {0, 1} THEN IoError
    ELSE Read(bytes[1] = 1, Tail(bytes))

\* for _ in 0..n { records.push(FromBytes::read_le(&mut reader)?) }
RECURSIVE ReadRecords(_, _)
ReadRecords(bytes, n) ==
    IF n = 0 THEN Read(<<>>, bytes)
    ELSE LET r == ReadRecord(bytes)
         IN IF ~r.ok THEN r
            ELSE LET more == ReadRecords(r.rest, n - 1)
                 IN IF ~more.ok THEN more ELSE Read(<<r.val>> \o more.val, more.rest)

\* for _ in 0..n { signatures.push(FromBytes::read_le(&mut reader)?) }
RECURSIVE ReadSignatures(_, _)
ReadSignatures(bytes, n) ==
    IF n = 0 THEN Read(<<>>, bytes)
    ELSE LET r == ReadSignature(bytes)
         IN IF ~r.ok THEN r
            ELSE LET more == ReadSignatures(r.rest, n - 1)
                 IN IF ~more.ok THEN more ELSE Read(<<r.val>> \o more.val, more.rest)

\* One noop compute key: the discriminant, then the key when it says so.
ReadOption(bytes) ==
    LET option_indicator == ReadBool(bytes)
    IN IF ~option_indicator.ok THEN option_indicator
       ELSE IF option_indicator.val
       THEN LET k == ReadComputeKey(option_indicator.rest)
            IN IF ~k.ok THEN k ELSE Read(Some(k.val), k.rest)
       ELSE Read(None, option_indicator.rest)

RECURSIVE ReadOptions(_, _)
ReadOptions(bytes, n) ==
    IF n = 0 THEN Read(<<>>, bytes)
    ELSE LET r == ReadOption(bytes)
         IN IF ~r.ok THEN r
            ELSE LET more == ReadOptions(r.rest, n - 1)
                 IN IF ~more.ok THEN more ELSE Read(<<r.val>> \o more.val, more.rest)

\* TransactionAuthorization::read_le, with the bytes it leaves unread
ReadLe(bytes) ==
    LET kernel == ReadKernel(bytes)
    IN IF ~kernel.ok THEN kernel ELSE
    LET input_records == ReadRecords(kernel.rest, NUM_INPUT_RECORDS)
    IN IF ~input_records.ok THEN input_records ELSE
    LET output_records == ReadRecords(input_records.rest, NUM_OUTPUT_RECORDS)
    IN IF ~output_records.ok THEN output_records ELSE
    LET signatures == ReadSignatures(output_records.rest, NUM_INPUT_RECORDS)
    IN IF ~signatures.ok THEN signatures ELSE
    LET noop_compute_keys == ReadOptions(signatures.rest, NUM_INPUT_RECORDS)
    IN IF ~noop_compute_keys.ok THEN noop_compute_keys ELSE
    Read([kernel |-> kernel.val,
          input_records |-> input_records.val,
          output_records |-> output_records.val,
          signatures |-> signatures.val,
          noop_compute_keys |-> noop_compute_keys.val],
         noop_compute_keys.rest)

(***************************************************************************)
(* The authorization scenario: an authorization is built from a state      *)
(* transition and signatures, written, and read back.                      *)
(***************************************************************************)
\* The vectors of n elements of S, and one vector each of n - 1 and n + 1.
SampleVecs(S, n) ==
    [1..n -> S]
    \cup {[i \in 1..(n - 1) |-> CHOOSE x \in S : TRUE]}
    \cup {[i \in 1..(n + 1) |-> CHOOSE x \in S : TRUE]}

\* The vectors of n - 1, n and n + 1 elements of S.
AllVecs(S, n) == UNION {[1..k -> S] : k \in (n - 1)..(n + 1)}

\* StateTransition: kernel(), input_records(), output_records() and
\* to_noop_compute_keys(), one optional key for each input.
StateTransition(kernel, input_records, output_records, noop_compute_keys) ==
    [kernel |-> kernel,
     input_records |-> input_records,
     output_records |-> output_records,
     noop_compute_keys |-> noop_compute_keys]

IdentifierIdle ==
    /\ name = <<>>
    /\ ident = "none"
    /\ shown = "none"
    /\ ipc = "idle"

InitAuthorization ==
    /\ IdentifierIdle
    /\ apc = "start"
    /\ debug \in BOOLEAN
    /\ state \in {StateTransition(k, ins, outs, keys) :
            k \in Kernels,
            ins \in SampleVecs(Records, NUM_INPUT_RECORDS),
            outs \in SampleVecs(Records, NUM_OUTPUT_RECORDS),
            keys \in [1..NUM_INPUT_RECORDS -> OptionalKeys]}
    /\ sigs \in SampleVecs(Signatures, NUM_INPUT_RECORDS)
    /\ auth = "none"
    /\ wire = "none"
    /\ back = "none"
    /\ derived = "none"
    /\ prev = "none"

\* TransactionAuthorization::from(&state, signatures)
CallFrom ==
    /\ apc = "start"
    /\ auth' = From(debug, state, sigs)
    /\ apc' = "built"
    /\ UNCHANGED <<idVars, debug, state, sigs, wire, back, derived, prev>>

\* authorization.write_le(&mut buffer)
CallWriteLe ==
    /\ apc = "built"
    /\ auth.ok
    /\ wire' = WriteLe(auth.val)
    /\ apc' = "written"
    /\ UNCHANGED <<idVars, debug, state, sigs, auth, back, derived, prev>>

\* TransactionAuthorization::read_le(&buffer[..])
CallReadLe ==
    /\ apc = "written"
    /\ back' = ReadLe(wire)
    /\ apc' = "read"
    /\ UNCHANGED <<idVars, debug, state, sigs, auth, wire, derived, prev>>

NextAuthorization == CallFrom \/ CallWriteLe \/ CallReadLe

SpecAuthorization == InitAuthorization /\ [][NextAuthorization]_vars

(***************************************************************************)
(* Properties of building, writing and reading.                            *)
(***************************************************************************)
\* A valid state transition with one signature for each input.
ValidInputs ==
    /\ IsValid(state.kernel)
    /\ Len(state.input_records) = NUM_INPUT_RECORDS
    /\ Len(state.output_records) = NUM_OUTPUT_RECORDS
    /\ Len(sigs) = NUM_INPUT_RECORDS

\* C5: an authorization built from a valid state transition and
\* NUM_INPUT_RECORDS signatures is read back, equal, from the bytes
\* written for it.
BytesRoundTrip ==
    (apc = "read" /\ ValidInputs) =>
        /\ back.ok
        /\ back.val = auth.val
        /\ back.val.kernel = state.kernel
        /\ back.val.input_records = state.input_records
        /\ back.val.output_records = state.output_records
        /\ back.val.signatures = sigs
        /\ back.val.noop_compute_keys = state.noop_compute_keys

\* A present and an absent noop compute key are read back.
BytesRoundTripWitness ==
    /\ apc = "read"
    /\ ValidInputs
    /\ state.noop_compute_keys = <<Some(1), None>>
    /\ back.ok
    /\ back.val = auth.val

\* C6: from fails, in a debug and in a release build, when a count is off
\* or the kernel is not valid.
FromFailsOnViolation ==
    (apc # "start" /\ ~ValidInputs) => ~auth.ok

\* The kinds of the fields from position i on are n optional compute keys:
\* a discriminant each, followed by the key exactly when it is true.
RECURSIVE AreOptions(_, _, _)
AreOptions(fields, i, n) ==
    IF n = 0 THEN i = Len(fields) + 1
    ELSE /\ i <= Len(fields)
         /\ fields[i].kind = "bool"
         /\ IF fields[i].bytes = BoolBytes(TRUE)
            THEN /\ i + 1 <= Len(fields)
                 /\ fields[i + 1].kind = "compute_key"
                 /\ AreOptions(fields, i + 2, n - 1)
            ELSE AreOptions(fields, i + 1, n - 1)

\* C10: write_le writes the kernel, NUM_INPUT_RECORDS input records,
\* NUM_OUTPUT_RECORDS output records, NUM_INPUT_RECORDS signatures and
\* NUM_INPUT_RECORDS optional compute keys, in this order and with nothing
\* else, which is what read_le consumes.
WireLayout ==
    apc = "written" =>
        LET fields == WriteFields(auth.val)
            n == NUM_INPUT_RECORDS
            m == NUM_OUTPUT_RECORDS
        IN /\ Len(fields) >= 1 + n + m + n
           /\ fields[1].kind = "kernel"
           /\ \A i \in 1..n : fields[1 + i].kind = "input_record"
           /\ \A i \in 1..m : fields[1 + n + i].kind = "output_record"
           /\ \A i \in 1..n : fields[1 + n + m + i].kind = "signature"
           /\ AreOptions(fields, 2 + n + m + n, n)
           /\ ReadLe(wire).ok
           /\ ReadLe(wire).rest = <<>>

(***************************************************************************)
(* The derivations.  The commitment scheme and the record encryption are   *)
(* ideal: a commitment is the pair of its input and its randomness, a      *)
(* ciphertext the pair of its record and its randomizer.  What the random  *)
(* source yields and whether a fallible step fails are chosen by the       *)
(* environment.                                                            *)
(***************************************************************************)
\* What UniformRand::rand(rng) may return.
Randomness == {0, 1}

\* C::program_commitment_scheme().commit(input, randomness)
Commit(input, randomness) == [input |-> input, randomness |-> randomness]

\* The records chained the wrong way round.
OutputsFirst(self) == self.output_records \o self.input_records

\* self.input_records.iter().chain(self.output_records.iter())
ChainedRecords(self) == self.input_records \o self.output_records

\* TransactionAuthorization::to_program_commitment.  bad is the position of
\* a record whose program identifier does not convert to bytes (0: none),
\* commit_fails tells whether the commitment scheme fails.
ToProgramCommitment(self, program_randomness, bad, commit_fails) ==
    LET records == Take(ChainedRecords(self), NUM_TOTAL_RECORDS)
    IN IF bad \in 1..Len(records)
       THEN Err("panic")
       ELSE LET program_ids ==
                    Flatten([i \in 1..Len(records) |->
                                ProgramIdBytes(records[i].program_id)])
            IN IF commit_fails THEN Err("commit")
               ELSE Ok([program_commitment |-> Commit(program_ids, program_randomness),
                        program_randomness |-> program_randomness])

\* EncryptedRecord::encrypt(record, rng), with the randomizer rng yields
Encrypt(record, randomizer) == [record |-> record, randomizer |-> randomizer]

\* EncryptedRecord::to_hash
ToHash(encrypted_record) == [hash_of |-> encrypted_record]

\* TransactionAuthorization::to_encrypted_records.  seed stands for the
\* state of rng; fail_at is the fallible step that fails (0: none), where
\* step 2i - 1 encrypts record i and step 2i hashes its ciphertext.
ToEncryptedRecords(self, seed, fail_at) ==
    LET records == Take(self.output_records, NUM_OUTPUT_RECORDS)
        encrypted == [i \in 1..Len(records) |-> Encrypt(records[i], <<seed, i>>)]
    IN IF fail_at \in 1..(2 * Len(records))
       THEN IF fail_at % 2 = 1 THEN Err("encrypt") ELSE Err("hash")
       ELSE Ok([encrypted_records |-> encrypted,
                encrypted_record_hashes |->
                    [i \in 1..Len(records) |-> ToHash(encrypted[i])],
                encrypted_record_randomizers |->
                    [i \in 1..Len(records) |-> encrypted[i].randomizer]])

\* A call of a derivation: the authorization it ran on and what it returned.
Call(op, self, res) == [op |-> op, self |-> self, res |-> res]

\* s with the elements at i and i + 1 exchanged
SwapAt(s, i) ==
    [k \in 1..Len(s) |-> IF k = i THEN s[i + 1] ELSE IF k = i + 1 THEN s[i] ELSE s[k]]

InitDerivation ==
    /\ IdentifierIdle
    /\ apc = "start"
    /\ debug \in BOOLEAN
    /\ state \in {StateTransition(1, ins, outs, [i \in 1..NUM_INPUT_RECORDS |-> None]) :
            ins \in AllVecs(Records, NUM_INPUT_RECORDS),
            outs \in AllVecs(Records, NUM_OUTPUT_RECORDS)}
    /\ sigs = [i \in 1..NUM_INPUT_RECORDS |-> 1]
    /\ auth = "none"
    /\ wire = "none"
    /\ back = "none"
    /\ derived = "none"
    /\ prev = "none"

\* authorization.to_program_commitment(rng), a first and a second time
CallToProgramCommitment ==
    /\ apc \in {"built", "reordered"}
    /\ auth.ok
    /\ \E r \in Randomness, bad \in 0..NUM_TOTAL_RECORDS, commit_fails \in BOOLEAN :
        derived' = Call("to_program_commitment", auth.val,
                        ToProgramCommitment(auth.val, r, bad, commit_fails))
    /\ apc' = IF apc = "built" THEN "committed" ELSE "recommitted"
    /\ UNCHANGED <<idVars, debug, state, sigs, auth, wire, back, prev>>

\* The caller exchanges two neighbouring input records, or two neighbouring
\* output records, or leaves the (public) vectors as they are.
Reorder ==
    /\ apc = "committed"
    /\ derived.res.ok
    /\ \/ UNCHANGED auth
       \/ \E i \in 1..(Len(auth.val.input_records) - 1) :
            auth' = Ok([auth.val EXCEPT !.input_records = SwapAt(@, i)])
       \/ \E i \in 1..(Len(auth.val.output_records) - 1) :
            auth' = Ok([auth.val EXCEPT !.output_records = SwapAt(@, i)])
    /\ prev' = derived
    /\ apc' = "reordered"
    /\ UNCHANGED <<idVars, debug, state, sigs, wire, back, derived>>

\* authorization.to_encrypted_records(rng)
CallToEncryptedRecords ==
    /\ apc = "built"
    /\ auth.ok
    /\ \E seed \in Randomness, fail_at \in 0..(2 * NUM_OUTPUT_RECORDS) :
        derived' = Call("to_encrypted_records", auth.val,
                        ToEncryptedRecords(auth.val, seed, fail_at))
    /\ apc' = "encrypted"
    /\ UNCHANGED <<idVars, debug, state, sigs, auth, wire, back, prev>>

NextDerivation ==
    CallFrom \/ CallToProgramCommitment \/ Reorder \/ CallToEncryptedRecords

SpecDerivation == InitDerivation /\ [][NextDerivation]_vars

(***************************************************************************)
(* Properties of the derivations.                                          *)
(***************************************************************************)
\* C7: a successful to_encrypted_records returns NUM_OUTPUT_RECORDS
\* ciphertexts, hashes and randomizers, the i-th of each made from the i-th
\* output record.
EncryptedRecordsAligned ==
    (apc = "encrypted" /\ derived.res.ok) =>
        LET v == derived.res.val
            outs == derived.self.output_records
        IN /\ Len(v.encrypted_records) = NUM_OUTPUT_RECORDS
           /\ Len(v.encrypted_record_hashes) = NUM_OUTPUT_RECORDS
           /\ Len(v.encrypted_record_randomizers) = NUM_OUTPUT_RECORDS
           /\ Len(outs) >= NUM_OUTPUT_RECORDS
           /\ \A i \in 1..NUM_OUTPUT_RECORDS :
                /\ v.encrypted_records[i].record = outs[i]
                /\ v.encrypted_record_hashes[i] = ToHash(v.encrypted_records[i])
                /\ v.encrypted_record_randomizers[i] = v.encrypted_records[i].randomizer

\* The program identifiers a commitment covers: those of the first
\* NUM_TOTAL_RECORDS records, the inputs before the outputs.
CommittedIds(self) ==
    LET n == Len(self.input_records)
        total == Min(n + Len(self.output_records), NUM_TOTAL_RECORDS)
    IN [i \in 1..total |->
            IF i <= n THEN self.input_records[i].program_id
            ELSE self.output_records[i - n].program_id]

\* The bytes of b that belong to the i-th of the identifiers it concatenates.
IdBytesAt(b, i) ==
    LET w == Len(ProgramIdBytes(1)) IN SubSeq(b, (i - 1) * w + 1, i * w)

\* C8: the committed bytes are the bytes of the program identifiers of the
\* input records, then of the output records, up to NUM_TOTAL_RECORDS
\* records; the same records and randomness give the same result, and an
\* exchange of records that changes the sequence of these program
\* identifiers changes the committed bytes.
CommitmentBindsOrder ==
    (apc \in {"committed", "recommitted"} /\ derived.res.ok) =>
        LET b == derived.res.val.program_commitment.input
            ids == CommittedIds(derived.self)
        IN /\ Len(b) = Len(ids) * Len(ProgramIdBytes(1))
           /\ \A i \in 1..Len(ids) : IdBytesAt(b, i) = ProgramIdBytes(ids[i])
           /\ derived.res.val.program_commitment.randomness
                = derived.res.val.program_randomness
           /\ apc = "recommitted" =>
                /\ (/\ prev.self = derived.self
                    /\ prev.res.val.program_randomness
                        = derived.res.val.program_randomness)
                   => prev.res.val = derived.res.val
                /\ CommittedIds(prev.self) # ids
                   => prev.res.val.program_commitment.input # b

\* Two output records of different programs were exchanged in an
\* authorization of the protocol's size, and the committed bytes differ.
CommitmentBindsOrderWitness ==
    /\ apc = "recommitted"
    /\ derived.res.ok
    /\ Len(derived.self.input_records) = NUM_INPUT_RECORDS
    /\ Len(derived.self.output_records) = NUM_OUTPUT_RECORDS
    /\ prev.self.input_records = derived.self.input_records
    /\ prev.self.output_records = SwapAt(derived.self.output_records, 1)
    /\ prev.self.output_records # derived.self.output_records
    /\ prev.res.val.program_randomness = derived.res.val.program_randomness
    /\ prev.res.val.program_commitment # derived.res.val.program_commitment

\* C9: to_program_commitment never panics: a program identifier that does
\* not convert to bytes, and a failure of the commitment scheme, come back
\* as an Err.
CommitmentNeverPanics ==
    apc \in {"committed", "recommitted"} =>
        (derived.res.ok \/ derived.res.err # "panic")

=============================================================================
